---------------------------- MODULE Spec2Model ----------------------------
(***************************************************************************)
(* A model of the relay-st-jude crate: the campaign query (build, POST,    *)
(* decode, discriminate), the serde decoders of the response envelope, the *)
(* Display implementations of ApiError and Usd, and the query of the       *)
(* executable with the two files it writes.                                *)
(*                                                                         *)
(* Text is a sequence of one-character strings.  A JSON value is a record  *)
(* with a tag t ("absent" for a key that is not in the object).  An f64 is *)
(* a record [k, neg, int, frac]: k is "fin", "nan" or "inf"; for a finite  *)
(* value int is the integer part and frac the decimal digits after the     *)
(* point without trailing zeros, so the arithmetic is exact decimal        *)
(* arithmetic (binary rounding is not modelled).                           *)
(***************************************************************************)
EXTENDS Integers, Sequences, FiniteSets, TLC

VARIABLES
    pc,        \* where the caller is: "idle", "sent" (POST issued), "done"
    calls,     \* the calls made so far: entry point, vanity, slug
    wire,      \* the requests POSTed so far, in order
    response,  \* what the transport gave back for the last POST
    result,    \* the Result<Campaign, Report> of the last call
    steps,     \* the steps of the current call, in the order they ran
    fs,        \* the file system: is ./target writable, and the two files in it
    op,        \* pure-function specifications: the function applied
    arg,       \* its argument
    ret        \* its value

vars == <<pc, calls, wire, response, result, steps, fs, op, arg, ret>>
pipeVars == <<pc, calls, wire, response, result, steps, fs>>
callVars == <<op, arg, ret>>

-----------------------------------------------------------------------------
(* Bounds *)

MaxErrors == 2       \* entries of `errors` in a response
MaxLocations == 2    \* entries of `locations` in an error
MaxMilestones == 2   \* entries of `milestones` in a campaign
MaxAmountLen == 3    \* length of the exhaustively enumerated `value` strings
MaxCalls == 2        \* calls of fetch / fetch_by in one run

-----------------------------------------------------------------------------
(* Text *)

Digits == <<"0", "1", "2", "3", "4", "5", "6", "7", "8", "9">>
DigitChars == {Digits[i] : i \in 1..10}
DigitVal(c) == (CHOOSE i \in 1..10 : Digits[i] = c) - 1

UpperAlpha == <<"A", "B", "C", "D", "E", "F", "G", "H", "I", "J", "K", "L", "M",
                "N", "O", "P", "Q", "R", "S", "T", "U", "V", "W", "X", "Y", "Z">>
LowerAlpha == <<"a", "b", "c", "d", "e", "f", "g", "h", "i", "j", "k", "l", "m",
                "n", "o", "p", "q", "r", "s", "t", "u", "v", "w", "x", "y", "z">>

\* u8::to_ascii_lowercase
ToAsciiLower(c) ==
    IF \E i \in 1..26 : UpperAlpha[i] = c
    THEN LowerAlpha[CHOOSE i \in 1..26 : UpperAlpha[i] = c]
    ELSE c

LowerText(s) == [i \in 1..Len(s) |-> ToAsciiLower(s[i])]

RECURSIVE Pow10(_)
Pow10(n) == IF n = 0 THEN 1 ELSE 10 * Pow10(n - 1)

\* Display of an unsigned integer: its decimal digits, no sign, no padding.
RECURSIVE Dec(_)
Dec(n) == IF n < 10 THEN <<Digits[n + 1]>> ELSE Dec(n \div 10) \o <<Digits[(n % 10) + 1]>>

\* The value of a sequence of digit characters (0 for the empty sequence).
RECURSIVE DigitsValue(_)
DigitsValue(s) ==
    IF s = <<>> THEN 0
    ELSE 10 * DigitsValue(SubSeq(s, 1, Len(s) - 1)) + DigitVal(s[Len(s)])

\* [T]::join(sep): the first element, then sep and an element for each other one.
RECURSIVE Join(_, _)
Join(texts, sep) ==
    IF texts = <<>> THEN <<>>
    ELSE IF Len(texts) = 1 THEN texts[1]
    ELSE texts[1] \o sep \o Join(Tail(texts), sep)

\* All sequences over S of length 0..n.
SeqsUpTo(S, n) == UNION {[1..k -> S] : k \in 0..n}

-----------------------------------------------------------------------------
(* f64 *)

Fin(neg, int, frac) == [k |-> "fin", neg |-> neg, int |-> int, frac |-> frac]
NaN(neg) == [k |-> "nan", neg |-> neg, int |-> 0, frac |-> <<>>]
Inf(neg) == [k |-> "inf", neg |-> neg, int |-> 0, frac |-> <<>>]

IsFinite(x) == x.k = "fin"

\* The digits of a fraction without its trailing zeros.
RECURSIVE StripTrailingZeros(_)
StripTrailingZeros(s) ==
    IF s # <<>> /\ s[Len(s)] = "0" THEN StripTrailingZeros(SubSeq(s, 1, Len(s) - 1))
    ELSE s

\* The length of the longest prefix of s made of decimal digits.
RECURSIVE DigitPrefixLen(_)
DigitPrefixLen(s) ==
    IF s # <<>> /\ s[1] \in DigitChars THEN 1 + DigitPrefixLen(Tail(s)) ELSE 0


\* Result<T, E>
Ok(v) == [ok |-> TRUE, val |-> v, err |-> "none"]
Err(e) == [ok |-> FALSE, err |-> e]

\* <f64 as FromStr>::from_str, on strings with no exponent part: an optional
\* sign, then digits with an optional point (at least one digit in all), or
\* "nan", "inf", "infinity" in any letter case.  Nothing else is accepted.
ParseF64(s) ==
    IF s = <<>> THEN Err("ParseFloatError")
    ELSE
        LET signed == s[1] \in {"+", "-"}
            neg == s[1] = "-"
            rest == IF signed THEN Tail(s) ELSE s
            n1 == DigitPrefixLen(rest)
            after1 == SubSeq(rest, n1 + 1, Len(rest))
            hasDot == after1 # <<>> /\ after1[1] = "."
            fracSrc == IF hasDot THEN Tail(after1) ELSE <<>>
            n2 == DigitPrefixLen(fracSrc)
            consumed == n1 + (IF hasDot THEN 1 + n2 ELSE 0)
        IN  IF rest = <<>> THEN Err("ParseFloatError")
            ELSE IF n1 + n2 > 0 /\ consumed = Len(rest)
            THEN Ok(Fin(neg, DigitsValue(SubSeq(rest, 1, n1)),
                        StripTrailingZeros(SubSeq(fracSrc, 1, n2))))
            ELSE IF LowerText(rest) = <<"n", "a", "n">> THEN Ok(NaN(neg))
            ELSE IF LowerText(rest) \in {<<"i", "n", "f">>,
                                         <<"i", "n", "f", "i", "n", "i", "t", "y">>}
            THEN Ok(Inf(neg))
            ELSE Err("ParseFloatError")

-----------------------------------------------------------------------------
(* JSON values *)

Absent == [t |-> "absent"]   \* the key is not in the object
Null == [t |-> "null"]
JStr(s) == [t |-> "str", s |-> s]
JNum(lit) == [t |-> "num", lit |-> lit]
JArr(items) == [t |-> "arr", items |-> items]

Present(j) == j.t # "absent"

\* The first failed result of a sequence of results, if any.
RECURSIVE FirstErr(_)
FirstErr(rs) ==
    IF rs = <<>> THEN Ok(<<>>)
    ELSE IF ~rs[1].ok THEN rs[1]
    ELSE FirstErr(Tail(rs))

\* <String as Deserialize>::deserialize from a JSON value
String_deserialize(j) ==
    IF j.t = "str" THEN Ok(j.s) ELSE Err("invalid type: expected a string")

\* deserialize_f64_from_str, the parse of the string
parse_f64(s) ==
    IF ~s.ok THEN s
    ELSE IF ParseF64(s.val).ok THEN Ok(ParseF64(s.val).val)
    ELSE Err("custom: ParseFloatError")

\* The mutant of deserialize_f64_from_str that also takes a JSON number.
deserialize_f64_lenient(j) ==
    parse_f64(IF j.t = "num" THEN Ok(j.lit) ELSE String_deserialize(j))

\* deserialize_f64_from_str: String::deserialize(d)?.parse().map_err(custom)
deserialize_f64_from_str(j) == parse_f64(String_deserialize(j))

\* A struct derived with Deserialize, read from a JSON object: the values
\* are visited in the order of the object's keys and the first one that
\* fails ends the decode; a required field that is not there is reported
\* after the last key; unknown keys are skipped.
StructResult(visited, required, value) ==
    IF ~FirstErr(visited).ok THEN FirstErr(visited)
    ELSE IF \E i \in 1..Len(required) : ~Present(required[i])
    THEN Err("missing field")
    ELSE Ok(value)

\* The results of the keys that are in the object, in order.
RECURSIVE Visited(_, _)
Visited(js, rs) ==
    IF js = <<>> THEN <<>>
    ELSE IF Present(js[1]) THEN <<rs[1]>> \o Visited(Tail(js), Tail(rs))
    ELSE Visited(Tail(js), Tail(rs))

\* The value of a decoded field, or `default` when the field did not decode
\* (the struct is not built then).
ValueOr(r, default) == IF r.ok THEN r.val ELSE default

\* Usd, lib.rs: the fields, a the decoded `value`
Usd_visit(j, a) ==
    StructResult(Visited(<<j.value>>, <<a>>), <<j.value>>,
                 [amount |-> ValueOr(a, NaN(FALSE))])

\* Usd, lib.rs: { #[serde(rename = "value")] amount }
Usd_deserialize(j) ==
    IF j.t # "obj" THEN Err("invalid type: expected struct Usd")
    ELSE Usd_visit(j, deserialize_f64_from_str(j.value))

usd(u) == u.amount
Usd_new(amount) == [amount |-> amount]

NoAmount == [currency |-> <<>>, value |-> NaN(FALSE)]

CurrencyAmount_visit(j, c, a) ==
    StructResult(Visited(<<j.currency, j.value>>, <<c, a>>),
                 <<j.currency, j.value>>,
                 [currency |-> ValueOr(c, <<>>), value |-> ValueOr(a, NaN(FALSE))])

\* CurrencyAmount, campaign.rs and main.rs: { currency, value }
CurrencyAmount_deserialize(j) ==
    IF j.t # "obj" THEN Err("invalid type: expected struct CurrencyAmount")
    ELSE CurrencyAmount_visit(j, String_deserialize(j.currency),
                              deserialize_f64_from_str(j.value))

\* <Vec<T> as Deserialize>::deserialize, rs the items of the JSON array
\* decoded in order: the first item that failed, or the items.
Vec_collect(rs) ==
    IF ~FirstErr(rs).ok THEN FirstErr(rs)
    ELSE Ok([i \in 1..Len(rs) |-> rs[i].val])

\* Option<T>
None == [some |-> FALSE]
Some(v) == [some |-> TRUE, val |-> v]

Milestone_visit(j, n, a) ==
    StructResult(Visited(<<j.name, j.amount>>, <<n, a>>),
                 <<j.name, j.amount>>,
                 [description |-> ValueOr(n, <<>>),
                  amount |-> ValueOr(a, Usd_new(NaN(FALSE)))])

\* Milestone, lib.rs: { #[serde(rename = "name")] description, amount }
Milestone_deserialize(j) ==
    IF j.t # "obj" THEN Err("invalid type: expected struct Milestone")
    ELSE Milestone_visit(j, String_deserialize(j.name), Usd_deserialize(j.amount))

\* Campaign.milestones, lib.rs: #[serde(default)] Vec<Milestone>
Campaign_milestones(j) ==
    IF ~Present(j) THEN Ok(<<>>)
    ELSE IF j.t # "arr" THEN Err("invalid type: expected a sequence")
    ELSE Vec_collect([i \in 1..Len(j.items) |-> Milestone_deserialize(j.items[i])])

\* The mutant of Campaign_visit in which `milestones` has no default.
Campaign_visit_milestones_required(j, n, d, r, g, ms) ==
    StructResult(
        Visited(<<j.name, j.description, j.totalAmountRaised, j.goal, j.milestones>>,
                <<n, d, r, g, ms>>),
        <<j.name, j.description, j.totalAmountRaised, j.goal, j.milestones>>,
        [name |-> ValueOr(n, <<>>),
         description |-> ValueOr(d, <<>>),
         total_amount_raised |-> ValueOr(r, Usd_new(NaN(FALSE))),
         goal |-> ValueOr(g, Usd_new(NaN(FALSE))),
         milestones |-> ValueOr(ms, <<>>)])

\* Campaign, lib.rs: the fields; `milestones` is not required
Campaign_visit(j, n, d, r, g, ms) ==
    StructResult(
        Visited(<<j.name, j.description, j.totalAmountRaised, j.goal, j.milestones>>,
                <<n, d, r, g, ms>>),
        <<j.name, j.description, j.totalAmountRaised, j.goal>>,
        [name |-> ValueOr(n, <<>>),
         description |-> ValueOr(d, <<>>),
         total_amount_raised |-> ValueOr(r, Usd_new(NaN(FALSE))),
         goal |-> ValueOr(g, Usd_new(NaN(FALSE))),
         milestones |-> ValueOr(ms, <<>>)])

\* Campaign, lib.rs: { name, description, totalAmountRaised, goal,
\* milestones }.  The keys come in the order the query asks for them; the
\* keys slug, status and those named in `others` are unknown to the struct.
Campaign_deserialize(j) ==
    IF j.t # "obj" THEN Err("invalid type: expected struct Campaign")
    ELSE Campaign_visit(j, String_deserialize(j.name), String_deserialize(j.description),
                        Usd_deserialize(j.totalAmountRaised), Usd_deserialize(j.goal),
                        Campaign_milestones(j.milestones))

FullMilestone_visit(j, n, a) ==
    StructResult(Visited(<<j.name, j.amount>>, <<n, a>>),
                 <<j.name, j.amount>>,
                 [name |-> ValueOr(n, <<>>), amount |-> ValueOr(a, NoAmount)])

\* Milestone, campaign.rs and main.rs: { name, amount: CurrencyAmount }
FullMilestone_deserialize(j) ==
    IF j.t # "obj" THEN Err("invalid type: expected struct Milestone")
    ELSE FullMilestone_visit(j, String_deserialize(j.name),
                             CurrencyAmount_deserialize(j.amount))

FullCampaign_milestones(j) ==
    IF ~Present(j) THEN Ok(<<>>)
    ELSE IF j.t # "arr" THEN Err("invalid type: expected a sequence")
    ELSE Vec_collect([i \in 1..Len(j.items) |-> FullMilestone_deserialize(j.items[i])])

FullCampaign_visit(j, n, sl, st, d, r, g, ms) ==
    StructResult(
        Visited(<<j.name, j.slug, j.status, j.description,
                  j.totalAmountRaised, j.goal, j.milestones>>,
                <<n, sl, st, d, r, g, ms>>),
        <<j.name, j.description, j.slug, j.status, j.goal, j.totalAmountRaised>>,
        [name |-> ValueOr(n, <<>>),
         description |-> ValueOr(d, <<>>),
         slug |-> ValueOr(sl, <<>>),
         status |-> ValueOr(st, <<>>),
         goal |-> ValueOr(g, NoAmount),
         total_amount_raised |-> ValueOr(r, NoAmount),
         milestones |-> ValueOr(ms, <<>>)])

\* Campaign, campaign.rs and main.rs: { name, description, slug, status,
\* goal, totalAmountRaised, milestones }, the keys in the order of that
\* file's query: name, slug, status, description, totalAmountRaised, goal,
\* milestones.
FullCampaign_deserialize(j) ==
    IF j.t # "obj" THEN Err("invalid type: expected struct Campaign")
    ELSE FullCampaign_visit(j, String_deserialize(j.name), String_deserialize(j.slug),
                            String_deserialize(j.status), String_deserialize(j.description),
                            CurrencyAmount_deserialize(j.totalAmountRaised),
                            CurrencyAmount_deserialize(j.goal),
                            FullCampaign_milestones(j.milestones))

\* <usize as Deserialize>::deserialize: a JSON number that is a plain
\* non-negative integer.
usize_deserialize(j) ==
    IF j.t = "num" /\ j.lit # <<>> /\ \A i \in 1..Len(j.lit) : j.lit[i] \in DigitChars
    THEN Ok(DigitsValue(j.lit))
    ELSE Err("invalid type: expected usize")

Location_visit(j, l, c) ==
    StructResult(Visited(<<j.line, j.column>>, <<l, c>>),
                 <<j.line, j.column>>,
                 [line |-> ValueOr(l, 0), column |-> ValueOr(c, 0)])

\* Location: { line, column }
Location_deserialize(j) ==
    IF j.t # "obj" THEN Err("invalid type: expected struct Location")
    ELSE Location_visit(j, usize_deserialize(j.line), usize_deserialize(j.column))

\* ApiError.locations: #[serde(default)] Vec<Location>
ApiError_locations(j) ==
    IF ~Present(j) THEN Ok(<<>>)
    ELSE IF j.t # "arr" THEN Err("invalid type: expected a sequence")
    ELSE Vec_collect([i \in 1..Len(j.items) |-> Location_deserialize(j.items[i])])

ApiError_visit(j, m, ls) ==
    StructResult(Visited(<<j.message, j.locations>>, <<m, ls>>),
                 <<j.message>>,
                 [message |-> ValueOr(m, <<>>), locations |-> ValueOr(ls, <<>>)])

\* ApiError: { message, #[serde(default)] locations }
ApiError_deserialize(j) ==
    IF j.t # "obj" THEN Err("invalid type: expected struct ApiError")
    ELSE ApiError_visit(j, String_deserialize(j.message), ApiError_locations(j.locations))

ApiData_visit(j, c) ==
    StructResult(Visited(<<j.campaign>>, <<c>>), <<j.campaign>>,
                 [campaign |-> ValueOr(c, Null)])

\* ApiData: { campaign }
ApiData_deserialize(j) ==
    IF j.t # "obj" THEN Err("invalid type: expected struct ApiData")
    ELSE ApiData_visit(j, Campaign_deserialize(j.campaign))

\* Option<T>::deserialize of a value that is not null
Option_some(d) == IF d.ok THEN Ok(Some(d.val)) ELSE d

\* ApiResponse.data: Option<ApiData>; a missing key and null are both None.
ApiResponse_data(j) ==
    IF j.t \in {"absent", "null"} THEN Ok(None)
    ELSE Option_some(ApiData_deserialize(j))

\* ApiResponse.errors: #[serde(default)] Vec<ApiError>
ApiResponse_errors(j) ==
    IF ~Present(j) THEN Ok(<<>>)
    ELSE IF j.t # "arr" THEN Err("invalid type: expected a sequence")
    ELSE Vec_collect([i \in 1..Len(j.items) |-> ApiError_deserialize(j.items[i])])

ApiResponse_visit(j, d, es) ==
    StructResult(Visited(<<j.data, j.errors>>, <<d, es>>), <<>>,
                 [data |-> ValueOr(d, None), errors |-> ValueOr(es, <<>>)])

\* ApiResponse: { data, #[serde(default)] errors }
ApiResponse_deserialize(j) ==
    IF j.t # "obj" THEN Err("invalid type: expected struct ApiResponse")
    ELSE ApiResponse_visit(j, ApiResponse_data(j.data), ApiResponse_errors(j.errors))

\* serde_json::from_str::<ApiResponse>: a body that is not JSON is a syntax
\* error.
ApiResponse_from_str(body) ==
    IF body.t = "garbage" THEN Err("syntax error") ELSE ApiResponse_deserialize(body)

Data_visit(j, c) ==
    StructResult(Visited(<<j.campaign>>, <<c>>), <<j.campaign>>,
                 [campaign |-> ValueOr(c, Null)])

\* Data, main.rs: { campaign }, the campaign being the Campaign of main.rs
Data_deserialize(j) ==
    IF j.t # "obj" THEN Err("invalid type: expected struct Data")
    ELSE Data_visit(j, FullCampaign_deserialize(j.campaign))

\* ApiResponse.data, main.rs: Option<Data>
main_ApiResponse_data(j) ==
    IF j.t \in {"absent", "null"} THEN Ok(None)
    ELSE Option_some(Data_deserialize(j))

\* ApiResponse, main.rs: { data, #[serde(default)] errors }; its ApiError and
\* ApiLocation have the fields of ApiError and Location of lib.rs.
main_ApiResponse_deserialize(j) ==
    IF j.t # "obj" THEN Err("invalid type: expected struct ApiResponse")
    ELSE ApiResponse_visit(j, main_ApiResponse_data(j.data), ApiResponse_errors(j.errors))

\* serde_json::from_str::<ApiResponse> in query_campaign_status
main_ApiResponse_from_str(body) ==
    IF body.t = "garbage" THEN Err("syntax error") ELSE main_ApiResponse_deserialize(body)

-----------------------------------------------------------------------------
(* Display *)

\* The mutant of ApiError_fmt that prints the last location.
ApiError_fmt_last(e) ==
    IF e.locations = <<>> THEN <<"~", " ">> \o e.message
    ELSE LET loc == e.locations[Len(e.locations)]
         IN  <<"~", ":">> \o Dec(loc.line) \o <<":">> \o Dec(loc.column)
                 \o <<" ">> \o e.message

\* impl fmt::Display for ApiError
ApiError_fmt(e) ==
    IF e.locations = <<>> THEN <<"~", " ">> \o e.message
    ELSE LET loc == e.locations[1]
         IN  <<"~", ":">> \o Dec(loc.line) \o <<":">> \o Dec(loc.column)
                 \o <<" ">> \o e.message

\* u64::MAX as num_format prints it for Locale::en
U64MaxText ==
    <<"1", "8", ",", "4", "4", "6", ",", "7", "4", "4", ",", "0", "7", "3", ",",
      "7", "0", "9", ",", "5", "5", "1", ",", "6", "1", "5">>

\* ToFormattedString for Locale::en: the digits in groups of three from the
\* right, separated by commas.
RECURSIVE GroupThousands(_)
GroupThousands(ds) ==
    IF Len(ds) <= 3 THEN ds
    ELSE GroupThousands(SubSeq(ds, 1, Len(ds) - 3)) \o <<",">>
             \o SubSeq(ds, Len(ds) - 2, Len(ds))

\* `amount as u64`, formatted: the cast truncates toward zero and saturates
\* (a negative value and NaN give 0, +inf gives u64::MAX).
DollarsText(x) ==
    IF x.k = "inf" /\ ~x.neg THEN U64MaxText
    ELSE IF x.k = "fin" /\ ~x.neg THEN GroupThousands(Dec(x.int))
    ELSE GroupThousands(Dec(0))

\* `(100. * amount.fract() + 0.005) as u8`: the cast floors a non-negative
\* value and saturates at 0 and 255.  fract() of a negative value is not
\* positive and of an infinity is NaN: both cast to 0.
Cents(x) ==
    IF x.k = "fin" /\ ~x.neg
    THEN LET k == IF Len(x.frac) < 3 THEN 3 ELSE Len(x.frac)
             f == DigitsValue(x.frac) * Pow10(k - Len(x.frac))
             c == (100 * f + 5 * Pow10(k - 3)) \div Pow10(k)
         IN  IF c > 255 THEN 255 ELSE c
    ELSE 0

\* format!("{:02}", cents): at least two digits, zero-padded.
Pad02(c) == IF c < 10 THEN <<"0">> \o Dec(c) ELSE Dec(c)

\* format!("{:>width$}", s): spaces on the left up to width characters.
PadLeft(s, width) ==
    IF Len(s) >= width THEN s ELSE [i \in 1..(width - Len(s)) |-> " "] \o s

\* impl fmt::Display for Usd; width is f.width()
Usd_fmt(u, width) ==
    LET s == <<"$">> \o DollarsText(u.amount) \o <<".">> \o Pad02(Cents(u.amount))
    IN  IF width.some THEN PadLeft(s, width.val) ELSE s

-----------------------------------------------------------------------------
(* The query *)

API_URL == "https://api.tiltify.com"

OperationName == "get_campaign_by_vanity_and_slug"

QueryText ==
    "query get_campaign_by_vanity_and_slug($vanity: String, $slug: String) {\n    campaign(vanity: $vanity, slug: $slug) {\n        name\n        description\n        totalAmountRaised {\n            currency\n            value\n        }\n        goal {\n            currency\n            value\n        }\n        milestones {\n            name\n            amount {\n                currency\n                value\n            }\n        }\n    }\n}"

\* The mutant of build_graph_ql_query that swaps its two arguments.
build_graph_ql_query_swapped(v, s) ==
    [operationName |-> OperationName,
     variables |-> [vanity |-> s, slug |-> v],
     query |-> QueryText]

build_graph_ql_query(v, s) ==
    [operationName |-> OperationName,
     variables |-> [vanity |-> v, slug |-> s],
     query |-> QueryText]

\* color_eyre::Report: what it wraps, and the text of a Report::msg
Report(kind, cause, text) == [kind |-> kind, cause |-> cause, text |-> text]

\* "Campaign Query failed:"
QueryFailedText ==
    <<"C", "a", "m", "p", "a", "i", "g", "n", " ", "Q", "u", "e", "r", "y", " ",
      "f", "a", "i", "l", "e", "d", ":">>

\* Campaign::fetch_json after the POST: send_json(..)? fails on a transport
\* error and on a status that is not 2xx, into_string()? on a read error.
fetch_json(outcome) ==
    IF outcome.t \in {"transport", "status"}
    THEN Err(Report("ureq::Error", outcome.t, <<>>))
    ELSE IF outcome.t = "read" THEN Err(Report("io::Error", outcome.t, <<>>))
    ELSE Ok(outcome.body)

\* The mutant of ErrorsReport that keeps the first entry only.
ErrorsReport_first(errors) ==
    LET lines == [i \in 1..Len(errors) |-> ApiError_fmt(errors[i])]
    IN  QueryFailedText \o <<"\n">>
            \o Join(IF lines = <<>> THEN lines ELSE <<lines[1]>>, <<"\n">>)

\* Campaign::fetch_by, the else branch: the text of the report
ErrorsReport(errors) ==
    LET lines == [i \in 1..Len(errors) |-> ApiError_fmt(errors[i])]
    IN  QueryFailedText \o <<"\n">> \o Join(lines, <<"\n">>)

\* The mutant of Discriminate that looks at `errors` first.
Discriminate_errors_first(res) ==
    IF res.errors # <<>>
    THEN Err(Report("msg", "none", ErrorsReport(res.errors)))
    ELSE IF res.data.some THEN Ok(res.data.val.campaign)
    ELSE Err(Report("msg", "none", ErrorsReport(res.errors)))

\* Campaign::fetch_by: `if let Some(data) = res.data { .. } else { .. }`
Discriminate(res) ==
    IF res.data.some THEN Ok(res.data.val.campaign)
    ELSE Err(Report("msg", "none", ErrorsReport(res.errors)))

\* Campaign::fetch_by: `let res: ApiResponse = serde_json::from_str(&json)?;`
\* and what follows it
fetch_by_decoded(res) ==
    IF ~res.ok THEN Err(Report("serde_json::Error", res.err, <<>>))
    ELSE Discriminate(res.val)

\* The mutant of fetch_by_json that decodes whatever fetch_json returned.
fetch_by_json_decode_anyway(json) ==
    fetch_by_decoded(ApiResponse_from_str(IF json.ok THEN json.val ELSE [t |-> "garbage"]))

\* Campaign::fetch_by: `let json = Self::fetch_json(vanity, slug)?;` and what
\* follows it
fetch_by_json(json) ==
    IF ~json.ok THEN json ELSE fetch_by_decoded(ApiResponse_from_str(json.val))

\* Campaign::fetch_by after the POST
fetch_by(outcome) == fetch_by_json(fetch_json(outcome))

-----------------------------------------------------------------------------
(* The query of the executable: query_campaign_status *)

main_QueryText ==
    "query get_campaign_by_vanity_and_slug($vanity: String, $slug: String) {\n    campaign(vanity: $vanity, slug: $slug) {\n        id\n        name\n        slug\n        status\n        originalGoal {\n            value\n            currency\n        }\n        team {\n            name\n        }\n        description\n        totalAmountRaised {\n            currency\n            value\n        }\n        goal {\n            currency\n            value\n        }\n        avatar {\n            alt\n            height\n            width\n            src\n        }\n        milestones {\n            id\n            name\n            amount {\n                value\n                currency\n            }\n        }\n    }\n}"

\* query_campaign_status: `let graph_ql_query = json!({ .. });`
graph_ql_query ==
    [operationName |-> "get_campaign_by_vanity_and_slug",
     variables |-> [vanity |-> "@relay-fm", slug |-> "relay-st-jude-21"],
     query |-> main_QueryText]

\* serde_json::to_string_pretty: the indented text of a JSON value.  It
\* cannot fail on a serde_json::Value.
to_string_pretty(v) == [text |-> "pretty", of |-> v]

\* A path nothing was written to, and a file with its content.
NoFile == [t |-> "nofile"]
File(content) == [t |-> "file", content |-> content]

\* The directory ./target before the executable has written to it.
EmptyTarget(writable) ==
    [writable |-> writable, request_json |-> NoFile, response_json |-> NoFile]

\* std::fs::write(path, content): the directory state it leaves, or the
\* io::Error when ./target cannot be written to.
fs_write(dir, path, content) ==
    IF ~dir.writable THEN Err(Report("io::Error", "write", <<>>))
    ELSE IF path = "./target/request.json"
         THEN Ok([dir EXCEPT !.request_json = File(content)])
         ELSE Ok([dir EXCEPT !.response_json = File(content)])

\* query_campaign_status: `if res.errors.is_empty() { Ok(res) } else { .. }`
query_campaign_status_check(res) ==
    IF res.errors = <<>> THEN Ok(res)
    ELSE Err(Report("msg", "none", ApiError_fmt(res.errors[1])))

\* query_campaign_status: `let res: ApiResponse = serde_json::from_str(..)?;`
\* and what follows it
query_campaign_status_decoded(res) ==
    IF ~res.ok THEN Err(Report("serde_json::Error", res.err, <<>>))
    ELSE query_campaign_status_check(res.val)

\* query_campaign_status from `std::fs::write("./target/response.json", ..)?`
\* on: written is the Result of that write.
query_campaign_status_written(written, body) ==
    IF ~written.ok THEN written
    ELSE query_campaign_status_decoded(main_ApiResponse_from_str(body))

\* query_campaign_status after the POST: send_json(..)? and into_string()?
\* fail as in fetch_json.
query_campaign_status_received(dir, outcome) ==
    IF ~fetch_json(outcome).ok THEN fetch_json(outcome)
    ELSE query_campaign_status_written(
             fs_write(dir, "./target/response.json", outcome.body), outcome.body)

-----------------------------------------------------------------------------
(* Inputs *)

\* The (vanity, slug) pairs fetch_by is called with: the campaign of fetch(),
\* and an empty vanity with a slug that holds a space.
CallArgs == {<<"@relay-fm", "relay-st-jude-21">>, <<"", "x y">>}

T_bad_slug == <<"b", "a", "d", " ", "s", "l", "u", "g">>
T_two_lines == <<"a", "\n", "b">>
T_USD == <<"U", "S", "D">>
T_Relay == <<"R", "e", "l", "a", "y">>
T_22663_40 == <<"2", "2", "6", "6", "3", ".", "4", "0">>
T_333333_33 == <<"3", "3", "3", "3", "3", "3", ".", "3", "3">>
T_75000_00 == <<"7", "5", "0", "0", "0", ".", "0", "0">>
T_20000_00 == <<"2", "0", "0", "0", "0", ".", "0", "0">>
T_not_a_number == <<"n", "o", "t", "-", "a", "-", "n", "u", "m", "b", "e", "r">>
T_NaN == <<"N", "a", "N">>
T_inf == <<"i", "n", "f">>
T_minus_inf == <<"-", "i", "n", "f">>
T_infinity == <<"i", "n", "f", "i", "n", "i", "t", "y">>

JLocation(l, c) == [t |-> "obj", line |-> JNum(Dec(l)), column |-> JNum(Dec(c))]
JError(m, ls) == [t |-> "obj", message |-> m, locations |-> ls]
JCurrency(v, c) == [t |-> "obj", value |-> v, currency |-> c]
JMilestone(n, a) == [t |-> "obj", name |-> n, amount |-> a]
JCampaign(n, d, r, g, ms, sl, st, others) ==
    [t |-> "obj", name |-> n, description |-> d, totalAmountRaised |-> r, goal |-> g,
     milestones |-> ms, slug |-> sl, status |-> st, others |-> others]

\* The keys the query of campaign.rs asks for that no struct has a field for.
OtherKeys == {"id", "team", "avatar", "originalGoal"}

\* The `errors` entries of the responses: the one of scenario S4, one without
\* `locations`, one with two locations, one without `message`.
ErrorObjects ==
    {JError(JStr(T_bad_slug), JArr(<<JLocation(2, 5)>>)),
     JError(JStr(<<"x">>), Absent),
     JError(JStr(T_two_lines), JArr(<<JLocation(10, 12), JLocation(2, 5)>>)),
     JError(Absent, Absent)}

ErrorsValues == {Absent, Null} \cup {JArr(es) : es \in SeqsUpTo(ErrorObjects, MaxErrors)}

GoodMilestones ==
    JArr(<<JMilestone(JStr(<<"K", "S", "P">>), JCurrency(JStr(T_75000_00), JStr(T_USD))),
           JMilestone(JStr(<<"F", "S">>), JCurrency(JStr(T_20000_00), JStr(T_USD)))>>)

\* The `campaign` values of the responses.
ResponseCampaigns ==
    {JCampaign(JStr(T_Relay), JStr(<<"d">>), JCurrency(JStr(T_22663_40), JStr(T_USD)),
               JCurrency(JStr(T_333333_33), JStr(T_USD)), GoodMilestones,
               Absent, Absent, {}),
     JCampaign(JStr(T_Relay), JStr(<<"d">>), JCurrency(JStr(T_22663_40), Absent),
               JCurrency(JStr(T_333333_33), Absent), Absent,
               JStr(<<"s">>), JStr(<<"p">>), OtherKeys),
     JCampaign(JStr(T_Relay), JStr(<<"d">>), JCurrency(JStr(T_22663_40), JStr(T_USD)),
               JCurrency(JStr(T_not_a_number), JStr(T_USD)), GoodMilestones,
               Absent, Absent, {}),
     Absent, Null}

DataValues == {Absent, Null} \cup {[t |-> "obj", campaign |-> c] : c \in ResponseCampaigns}

\* The response bodies: text that is not JSON, and the JSON objects.
Bodies ==
    {[t |-> "garbage"]}
        \cup {[t |-> "obj", data |-> d, errors |-> e] : d \in DataValues, e \in ErrorsValues}

\* What the transport does with a POST.
TransportOutcomes ==
    {[t |-> f, body |-> Null] : f \in {"transport", "status", "read"}}
        \cup {[t |-> "body", body |-> b] : b \in Bodies}

NoResponse == [t |-> "none", body |-> Null]
NoResult == Err(Report("none", "none", <<>>))

-----------------------------------------------------------------------------
(* The campaign query: Campaign::fetch and Campaign::fetch_by *)

Init ==
    /\ pc = "idle"
    /\ calls = <<>>
    /\ wire = <<>>
    /\ response = NoResponse
    /\ result = NoResult
    /\ steps = <<>>
    /\ fs = EmptyTarget(TRUE)
    /\ op = "none"
    /\ arg = Null
    /\ ret = NoResult

\* fetch_by up to the POST: the query is built and handed to send_json.
Call(entry, v, s) ==
    /\ pc \in {"idle", "done"}
    /\ Len(calls) < MaxCalls
    /\ calls' = Append(calls, [entry |-> entry, vanity |-> v, slug |-> s])
    /\ wire' = Append(wire, [method |-> "POST", url |-> API_URL,
                              json |-> build_graph_ql_query(v, s)])
    /\ steps' = <<"build", "send">>
    /\ response' = NoResponse
    /\ result' = NoResult
    /\ pc' = "sent"
    /\ UNCHANGED fs
    /\ UNCHANGED callVars

\* Campaign::fetch
Fetch == Call("fetch", "@relay-fm", "relay-st-jude-21")

\* Campaign::fetch_by
FetchBy == \E a \in CallArgs : Call("fetch_by", a[1], a[2])

\* The blocked POST returns and fetch_by runs to its end.
Respond ==
    /\ pc = "sent"
    /\ \E o \in TransportOutcomes :
        /\ response' = o
        /\ result' = fetch_by(o)
        /\ steps' = steps \o (IF fetch_json(o).ok THEN <<"receive", "decode">>
                              ELSE <<"fail">>)
    /\ pc' = "done"
    /\ UNCHANGED <<calls, wire, fs, callVars>>

Next == Fetch \/ FetchBy \/ Respond

Spec == Init /\ [][Next]_vars


-----------------------------------------------------------------------------
(* The decoders on their own: serde_json::from_str of one value *)

\* The characters of the exhaustively enumerated `value` strings.
AmountAlphabet == {"1", "5", ".", "-", "n", "a"}

AmountSamples ==
    {T_22663_40, T_333333_33, T_75000_00, T_20000_00, T_not_a_number,
     T_NaN, T_inf, T_minus_inf, T_infinity,
     <<"+", "i", "n", "f">>, <<"I", "n", "f", "i", "n", "i", "t", "y">>,
     <<"-", "N", "A", "N">>, <<"0", ".", "9", "9", "9">>, <<"1", ".", "9", "9", "5">>,
     <<"+", "0", "0", "7", ".", "5", "0">>, <<" ", "1">>, <<"1", ",", "0", "0", "0">>}

AmountStrings == SeqsUpTo(AmountAlphabet, MaxAmountLen) \cup AmountSamples

\* The currency objects: `value` missing, null, a native number or a string;
\* with and without the `currency` sibling.
CurrencyObjects ==
    {JCurrency(v, c) :
        v \in {Absent, Null, JNum(T_333333_33)} \cup {JStr(a) : a \in AmountStrings},
        c \in {Absent, JStr(T_USD)}}

\* The currency objects of the campaign payloads.
PayloadAmounts ==
    {JCurrency(JStr(T_22663_40), JStr(T_USD)),
     JCurrency(JStr(T_333333_33), Absent),
     JCurrency(JStr(T_not_a_number), JStr(T_USD)),
     JCurrency(JStr(T_NaN), JStr(T_USD)),
     JCurrency(JNum(T_333333_33), JStr(T_USD))}

MilestoneObjects ==
    {JMilestone(JStr(<<"K", "S", "P">>), JCurrency(JStr(T_75000_00), JStr(T_USD))),
     JMilestone(JStr(<<"F", "S">>), JCurrency(JStr(T_20000_00), Absent)),
     JMilestone(JStr(<<"K", "S", "P">>), JCurrency(JStr(T_not_a_number), JStr(T_USD)))}

MilestonesValues ==
    {Absent, Null} \cup {JArr(ms) : ms \in SeqsUpTo(MilestoneObjects, MaxMilestones)}

CampaignPayloads ==
    {JCampaign(n, d, r, g, ms, sl, st, others) :
        n \in {JStr(T_Relay), Absent},
        d \in {JStr(<<"d">>), Null},
        r \in {JCurrency(JStr(T_22663_40), JStr(T_USD)), Absent},
        g \in PayloadAmounts,
        ms \in MilestonesValues,
        sl \in {Absent, JStr(<<"s">>)},
        st \in {Absent, JStr(<<"p">>)},
        others \in {{}, OtherKeys}}

\* One value is decoded and the outcome kept.
Decode(name, j, r) ==
    /\ op' = name
    /\ arg' = j
    /\ ret' = r
    /\ UNCHANGED pipeVars

\* serde_json::from_str::<Usd>
DecodeUsd ==
    /\ op = "none"
    /\ \E j \in CurrencyObjects : Decode("Usd", j, Usd_deserialize(j))

\* serde_json::from_str::<CurrencyAmount>, campaign.rs and main.rs
DecodeCurrencyAmount ==
    /\ op = "none"
    /\ \E j \in CurrencyObjects :
        Decode("CurrencyAmount", j, CurrencyAmount_deserialize(j))

\* serde_json::from_str::<Campaign>, lib.rs
DecodeCampaign ==
    /\ op = "none"
    /\ \E j \in CampaignPayloads : Decode("Campaign", j, Campaign_deserialize(j))

\* serde_json::from_str::<Campaign>, campaign.rs and main.rs
DecodeFullCampaign ==
    /\ op = "none"
    /\ \E j \in CampaignPayloads :
        Decode("FullCampaign", j, FullCampaign_deserialize(j))

NextDecode == DecodeUsd \/ DecodeCurrencyAmount \/ DecodeCampaign \/ DecodeFullCampaign

SpecDecode == Init /\ [][NextDecode]_vars

-----------------------------------------------------------------------------
(* The Display implementations on their own *)

Messages == {T_bad_slug, <<>>, T_two_lines}

LocationValues == {[line |-> l, column |-> c] : l \in {1, 2, 10}, c \in {5, 12, 120}}

ApiErrors ==
    {[message |-> m, locations |-> ls] :
        m \in Messages, ls \in SeqsUpTo(LocationValues, MaxLocations)}

DollarSamples == {0, 1, 12, 999, 1000, 22663, 333333, 1234567, 1000000000}

FracSamples ==
    {<<>>, <<"4">>, <<"3", "3">>, <<"0", "5">>, <<"0", "0", "5">>, <<"9", "9", "4">>,
     <<"9", "9", "5">>, <<"9", "9", "9">>, <<"9", "9", "9", "4">>,
     <<"9", "9", "9", "9", "4">>, <<"9", "9", "9", "9", "6">>,
     <<"9", "9", "9", "9", "9">>, <<"9", "9", "9", "9", "9", "9">>}

UsdAmounts ==
    {Usd_new(Fin(FALSE, d, f)) : d \in DollarSamples, f \in FracSamples}
        \cup {Usd_new(Fin(TRUE, 1, <<"5">>)), Usd_new(NaN(FALSE)),
              Usd_new(Inf(FALSE)), Usd_new(Inf(TRUE))}

Widths == {None, Some(0), Some(12)}

\* format!("{}", e) for an ApiError
FmtApiError ==
    /\ op = "none"
    /\ \E e \in ApiErrors :
        /\ op' = "ApiError::fmt"
        /\ arg' = e
        /\ ret' = ApiError_fmt(e)
    /\ UNCHANGED pipeVars

\* format!("{}", u) and format!("{:w$}", u) for a Usd
FmtUsd ==
    /\ op = "none"
    /\ \E u \in UsdAmounts, w \in Widths :
        /\ op' = "Usd::fmt"
        /\ arg' = [usd |-> u, width |-> w]
        /\ ret' = Usd_fmt(u, w)
    /\ UNCHANGED pipeVars

NextDisplay == FmtApiError \/ FmtUsd

SpecDisplay == Init /\ [][NextDisplay]_vars

-----------------------------------------------------------------------------
(* The executable: main calls query_campaign_status once *)

\* The `campaign` values of the responses to the executable: those above and
\* one with every key its query asks for.
main_ResponseCampaigns ==
    ResponseCampaigns
        \cup {JCampaign(JStr(T_Relay), JStr(<<"d">>), JCurrency(JStr(T_22663_40), JStr(T_USD)),
                        JCurrency(JStr(T_333333_33), JStr(T_USD)), GoodMilestones,
                        JStr(<<"s">>), JStr(<<"p">>), OtherKeys)}

main_DataValues ==
    {Absent, Null} \cup {[t |-> "obj", campaign |-> c] : c \in main_ResponseCampaigns}

main_Bodies ==
    {[t |-> "garbage"]}
        \cup {[t |-> "obj", data |-> d, errors |-> e] :
                  d \in main_DataValues, e \in ErrorsValues}

main_TransportOutcomes ==
    {[t |-> f, body |-> Null] : f \in {"transport", "status", "read"}}
        \cup {[t |-> "body", body |-> b] : b \in main_Bodies}

\* ./target is writable or not when the executable starts.
InitMain ==
    /\ pc = "idle"
    /\ calls = <<>>
    /\ wire = <<>>
    /\ response = NoResponse
    /\ result = NoResult
    /\ steps = <<>>
    /\ fs \in {EmptyTarget(w) : w \in BOOLEAN}
    /\ op = "none"
    /\ arg = Null
    /\ ret = NoResult

\* query_campaign_status up to the POST: written is the Result of
\* `std::fs::write("./target/request.json", &request)?`.
QueryStartWith(written) ==
    /\ pc = "idle"
    /\ calls' = Append(calls, [entry |-> "query_campaign_status",
                                vanity |-> graph_ql_query.variables.vanity,
                                slug |-> graph_ql_query.variables.slug])
    /\ response' = NoResponse
    /\ IF written.ok
       THEN /\ fs' = written.val
            /\ wire' = Append(wire, [method |-> "POST", url |-> API_URL,
                                      json |-> graph_ql_query])
            /\ steps' = <<"build", "write", "send">>
            /\ result' = NoResult
            /\ pc' = "sent"
       ELSE /\ fs' = fs
            /\ wire' = wire
            /\ steps' = <<"build", "write", "fail">>
            /\ result' = written
            /\ pc' = "done"
    /\ UNCHANGED callVars

QueryStart ==
    QueryStartWith(fs_write(fs, "./target/request.json", to_string_pretty(graph_ql_query)))

\* The blocked POST returns and query_campaign_status runs to its end.
QueryRespond ==
    /\ pc = "sent"
    /\ \E o \in main_TransportOutcomes :
        /\ response' = o
        /\ result' = query_campaign_status_received(fs, o)
        /\ fs' = (IF fetch_json(o).ok /\ fs.writable
                  THEN fs_write(fs, "./target/response.json", o.body).val
                  ELSE fs)
        /\ steps' = steps \o (IF ~fetch_json(o).ok THEN <<"fail">>
                               ELSE IF ~fs.writable THEN <<"receive", "write", "fail">>
                               ELSE <<"receive", "write", "decode">>)
    /\ pc' = "done"
    /\ UNCHANGED <<calls, wire, callVars>>

\* Outside the executable: ./target stops being writable, or becomes so,
\* while the query is not finished.
TargetChanges ==
    /\ pc \in {"idle", "sent"}
    /\ fs' = [fs EXCEPT !.writable = ~fs.writable]
    /\ UNCHANGED <<pc, calls, wire, response, result, steps, callVars>>

NextMain == QueryStart \/ QueryRespond \/ TargetChanges

SpecMain == InitMain /\ [][NextMain]_vars


-----------------------------------------------------------------------------
(* Properties of the campaign query (Spec) *)

\* The last call is over and the transport gave a body that is a JSON object.
GotObject == pc = "done" /\ response.t = "body" /\ response.body.t = "obj"

\* ... and the object decodes as an ApiResponse.
GotEnvelope == GotObject /\ ApiResponse_from_str(response.body).ok

\* The `data` slot of the body is there and is not null.
DataPresent == response.body.data.t \notin {"absent", "null"}

\* The entries of the `errors` slot of the body ("no entries" when it is
\* missing).
ErrorItems ==
    IF response.body.errors.t = "arr" THEN response.body.errors.items ELSE <<>>

\* A newline and the formatted entry, for each of the first n entries.
RECURSIVE EntryLines(_, _)
EntryLines(items, n) ==
    IF n = 0 THEN <<>>
    ELSE EntryLines(items, n - 1) \o <<"\n">>
             \o ApiError_fmt(ApiError_deserialize(items[n]).val)

\* C1: when the body decodes as an envelope whose `data` is present and not
\* null, fetch_by returns Ok with the campaign decoded from data.campaign,
\* whatever `errors` holds; the errors report is returned only when `data`
\* is absent or null.
C1_DataWins ==
    /\ (GotEnvelope /\ DataPresent)
           => /\ result.ok
              /\ result.val = Campaign_deserialize(response.body.data.campaign).val
    /\ (pc = "done" /\ ~result.ok /\ result.err.kind = "msg")
           => (GotObject /\ ~DataPresent)

\* C1: fetch_by returned the campaign of a response that also carried errors.
C1_Witness ==
    /\ GotEnvelope
    /\ DataPresent
    /\ Len(ErrorItems) >= 1
    /\ result.ok
    /\ result.val.name = T_Relay

\* C2: when `data` is absent or null and `errors` holds n >= 1 entries,
\* fetch_by returns an error whose text is "Campaign Query failed:" followed
\* by a newline and a formatted entry for each of the n entries, in the order
\* received.
C2_AllErrorsReported ==
    /\ (GotEnvelope /\ ~DataPresent /\ Len(ErrorItems) >= 1)
           => /\ ~result.ok
              /\ result.err.kind = "msg"
              /\ result.err.text = QueryFailedText \o EntryLines(ErrorItems, Len(ErrorItems))
    /\ (GotObject /\ response.body.data = Null
            /\ ErrorItems = <<JError(JStr(T_bad_slug), JArr(<<JLocation(2, 5)>>))>>)
           => result.err.text =
                  QueryFailedText \o <<"\n", "~", ":", "2", ":", "5", " ">> \o T_bad_slug

\* C2: a report of two different entries was returned.
C2_Witness ==
    /\ GotEnvelope
    /\ ~DataPresent
    /\ Len(ErrorItems) = 2
    /\ ErrorItems[1] # ErrorItems[2]
    /\ ~result.ok
    /\ result.err.kind = "msg"

\* C3 (as claimed): a response with no `data` and no `errors` entry surfaces
\* an error of the kind EmptyResponse, which is not the kind of the report
\* made when entries were received.
C3_EmptyResponse ==
    (GotEnvelope /\ ~DataPresent /\ ErrorItems = <<>>)
        => /\ ~result.ok
           /\ result.err.kind = "EmptyResponse"
           /\ result.err.kind # "msg"

\* C10: every request sent is an object with exactly the keys operationName,
\* variables and query; operationName is the literal name, variables holds
\* the two arguments of the call unchanged, query is the same text in every
\* request; calls with equal arguments send equal objects; fetch() sends
\* the object for ("@relay-fm", "relay-st-jude-21").
C10_QueryBuilt ==
    /\ Len(wire) = Len(calls)
    /\ \A i \in 1..Len(wire) :
        /\ DOMAIN wire[i].json = {"operationName", "variables", "query"}
        /\ wire[i].json.operationName = "get_campaign_by_vanity_and_slug"
        /\ DOMAIN wire[i].json.variables = {"vanity", "slug"}
        /\ wire[i].json.variables.vanity = calls[i].vanity
        /\ wire[i].json.variables.slug = calls[i].slug
        /\ wire[i].json.query = wire[1].json.query
        /\ calls[i].entry = "fetch"
               => wire[i].json.variables =
                      [vanity |-> "@relay-fm", slug |-> "relay-st-jude-21"]
    /\ \A i, k \in 1..Len(wire) :
        (calls[i].vanity = calls[k].vanity /\ calls[i].slug = calls[k].slug)
            => wire[i].json = wire[k].json

\* C10: fetch() and then fetch_by with other arguments have sent their
\* requests.
C10_Witness ==
    /\ Len(wire) = 2
    /\ calls[1].entry = "fetch"
    /\ calls[2].entry = "fetch_by"
    /\ calls[2].vanity = ""
    /\ calls[2].slug = "x y"

-----------------------------------------------------------------------------
(* Properties of the decoders (SpecDecode) *)

\* A currency object whose `value` is a string that parses to a finite number.
AmountOk(c) ==
    /\ c.t = "obj"
    /\ c.value.t = "str"
    /\ ParseF64(c.value.s).ok
    /\ IsFinite(ParseF64(c.value.s).val)

\* A currency object whose `value` is a native number or a string that does
\* not parse.
AmountMalformed(c) ==
    /\ c.t = "obj"
    /\ \/ c.value.t = "num"
       \/ c.value.t = "str" /\ ~ParseF64(c.value.s).ok

\* A campaign payload with the four required fields well-formed.
CoreWellFormed(j) ==
    /\ j.name.t = "str"
    /\ j.description.t = "str"
    /\ AmountOk(j.totalAmountRaised)
    /\ AmountOk(j.goal)

\* `milestones` is missing or a list of well-formed milestones.
MilestonesWellFormed(ms) ==
    \/ ms.t = "absent"
    \/ /\ ms.t = "arr"
       /\ \A i \in 1..Len(ms.items) :
            ms.items[i].name.t = "str" /\ AmountOk(ms.items[i].amount)

\* C5: a `value` string that parses as a finite number x decodes to a
\* currency with usd() = x; a `value` string that does not parse fails the
\* decode with the parse error, and fails the decode of the campaign that
\* holds it; a `value` that is a native JSON number is rejected.
C5_CurrencyDecode ==
    /\ (op = "Usd" /\ AmountOk(arg))
           => (ret.ok /\ usd(ret.val) = ParseF64(arg.value.s).val)
    /\ (op = "Usd" /\ arg.value.t = "str" /\ ~ParseF64(arg.value.s).ok)
           => (~ret.ok /\ ret.err = "custom: ParseFloatError")
    /\ (op = "Usd" /\ arg.value.t = "num") => ~ret.ok
    /\ (op = "Usd" /\ arg.value = JStr(T_333333_33))
           => (ret.ok /\ usd(ret.val) = Fin(FALSE, 333333, <<"3", "3">>))
    /\ (op = "Usd" /\ arg.value = JStr(<<"+", "0", "0", "7", ".", "5", "0">>))
           => (ret.ok /\ usd(ret.val) = Fin(FALSE, 7, <<"5">>))
    /\ (op = "Usd" /\ arg.value \in {JStr(T_not_a_number), JStr(<<>>), JStr(<<" ", "1">>),
                                      JStr(<<"1", ",", "0", "0", "0">>), JStr(<<"-">>),
                                      JStr(<<".">>)})
           => ~ret.ok
    /\ (op = "Campaign" /\ arg.goal.t = "obj" /\ AmountMalformed(arg.goal)) => ~ret.ok

\* C5: the string "333333.33" was decoded.
C5_Witness ==
    /\ op = "Usd"
    /\ arg.value = JStr(T_333333_33)
    /\ ret.ok
    /\ usd(ret.val) = Fin(FALSE, 333333, <<"3", "3">>)

NonFiniteLiterals == {T_NaN, T_inf, T_minus_inf, T_infinity}

\* C6 (as claimed): a `value` string that denotes NaN or an infinity fails
\* the decode, and no decoded Campaign holds an amount that is not finite.
C6_NonFiniteRejected ==
    /\ (op = "Usd" /\ arg.value.t = "str" /\ arg.value.s \in NonFiniteLiterals) => ~ret.ok
    /\ (op = "Campaign" /\ ret.ok)
           => /\ IsFinite(usd(ret.val.goal))
              /\ IsFinite(usd(ret.val.total_amount_raised))
              /\ \A i \in 1..Len(ret.val.milestones) :
                    IsFinite(usd(ret.val.milestones[i].amount))

\* C8: a payload without `milestones`, otherwise well-formed, decodes to a
\* Campaign with no milestones; when `milestones` is there, the decoded
\* milestones are the received entries, in the order received.
C8_DefaultMilestones ==
    op = "Campaign" =>
        /\ (arg.milestones.t = "absent" /\ CoreWellFormed(arg))
               => (ret.ok /\ ret.val.milestones = <<>>)
        /\ (arg.milestones.t = "arr" /\ ret.ok)
               => /\ Len(ret.val.milestones) = Len(arg.milestones.items)
                  /\ \A i \in 1..Len(arg.milestones.items) :
                        /\ ret.val.milestones[i].description = arg.milestones.items[i].name.s
                        /\ usd(ret.val.milestones[i].amount) =
                               ParseF64(arg.milestones.items[i].amount.value.s).val

\* C8: a payload without `milestones` was decoded to a Campaign.
C8_Witness ==
    /\ op = "Campaign"
    /\ arg.milestones.t = "absent"
    /\ ret.ok
    /\ ret.val.milestones = <<>>

\* The payload without the keys no field of lib.rs's Campaign reads.
StripCurrency(c) == IF c.t = "obj" THEN [c EXCEPT !.currency = Absent] ELSE c
StripExtras(j) ==
    [j EXCEPT !.slug = Absent, !.status = Absent, !.others = {},
              !.totalAmountRaised = StripCurrency(@), !.goal = StripCurrency(@)]

\* C9 (as claimed): a payload whose modelled fields are well-formed decodes,
\* with or without slug, status, the other extra keys and the `currency`
\* siblings, and lib.rs's Campaign is the same with and without them.
C9_ExtrasNeitherRejectedNorRequired ==
    /\ (op \in {"Campaign", "FullCampaign"} /\ CoreWellFormed(arg)
            /\ MilestonesWellFormed(arg.milestones))
           => ret.ok
    /\ op = "Campaign" => ret = Campaign_deserialize(StripExtras(arg))

-----------------------------------------------------------------------------
(* Properties of the Display implementations (SpecDisplay) *)

\* C4: an ApiError with message m is rendered "~ m" when it has no location
\* and "~:l:c m" when it has locations, (l, c) being the first of them.
C4_ApiErrorFormat ==
    op = "ApiError::fmt" =>
        /\ arg.locations = <<>> => ret = <<"~", " ">> \o arg.message
        /\ arg.locations # <<>>
               => ret = <<"~", ":">> \o Dec(arg.locations[1].line) \o <<":">>
                            \o Dec(arg.locations[1].column) \o <<" ">> \o arg.message
        /\ (arg.message = T_bad_slug /\ arg.locations # <<>>
                /\ arg.locations[1] = [line |-> 10, column |-> 120])
               => ret = <<"~", ":", "1", "0", ":", "1", "2", "0", " ">> \o T_bad_slug

\* C4: an ApiError with two different locations was rendered.
C4_Witness ==
    /\ op = "ApiError::fmt"
    /\ Len(arg.locations) >= 2
    /\ arg.locations[1] # arg.locations[2]
    /\ ret = <<"~", ":", "2", ":", "5", " ">> \o T_bad_slug

\* C7 (as claimed): a non-negative finite amount is rendered as "$", the
\* integer part grouped in thousands, "." and exactly two digits, which are
\* floor(100 * fractional + 0.005) and lie in 0..99.
C7_TwoDecimalDigits ==
    (op = "Usd::fmt" /\ ~arg.width.some /\ IsFinite(arg.usd.amount) /\ ~arg.usd.amount.neg)
        => LET head == <<"$">> \o GroupThousands(Dec(arg.usd.amount.int)) \o <<".">>
               tail == SubSeq(ret, Len(head) + 1, Len(ret))
           IN  /\ Len(ret) = Len(head) + 2
               /\ SubSeq(ret, 1, Len(head)) = head
               /\ \A i \in 1..Len(tail) : tail[i] \in DigitChars
               /\ DigitsValue(tail) = Cents(arg.usd.amount)
               /\ DigitsValue(tail) \in 0..99

-----------------------------------------------------------------------------
(* C11 *)

TransportFailures == {"transport", "status", "read"}

\* C11: one fetch_by call is one attempt in the order build, send, receive,
\* decode: every call has issued exactly one POST, the one built from its own
\* arguments, a finished call has gone through build, send, receive, decode or,
\* when the transport failed, through build, send and the failure only, and a
\* transport failure ends the call with the transport's error (ureq::Error for
\* a connection failure or a status that is not 2xx, io::Error for a failed
\* read) and never with a Campaign or a decoding error.
C11_SingleSequentialAttempt ==
    /\ Len(wire) = Len(calls)
    /\ \A i \in 1..Len(calls) :
          /\ wire[i].method = "POST"
          /\ wire[i].json = build_graph_ql_query(calls[i].vanity, calls[i].slug)
    /\ pc = "sent" => steps = <<"build", "send">>
    /\ (pc = "done" /\ response.t = "body")
          => steps = <<"build", "send", "receive", "decode">>
    /\ (pc = "done" /\ response.t \in TransportFailures)
          => /\ steps = <<"build", "send", "fail">>
             /\ ~result.ok
             /\ result.err.kind = (IF response.t = "read" THEN "io::Error" ELSE "ureq::Error")
             /\ result.err.cause = response.t

\* A second call has ended on a status that is not 2xx.
C11_Witness ==
    /\ pc = "done"
    /\ Len(calls) = 2
    /\ response.t = "status"
    /\ ~result.ok

-----------------------------------------------------------------------------
(* C12 *)

\* query_campaign_status received a JSON object that decodes as the
\* ApiResponse of main.rs, and recorded it in ./target/response.json.
main_GotEnvelope ==
    /\ GotObject
    /\ fs.response_json = File(response.body)
    /\ main_ApiResponse_from_str(response.body).ok

\* C12 (as claimed): when the response to query_campaign_status holds two or
\* more `errors` entries and no data, the error returned carries the formatted
\* entries, all of them, joined by newlines (with or without the line
\* "Campaign Query failed:" before them); and when the response holds `data`,
\* query_campaign_status returns Ok with that data, whatever `errors` holds.
C12_AllEntriesAndDataUsed ==
    /\ (main_GotEnvelope /\ ~DataPresent /\ Len(ErrorItems) >= 2)
           => /\ ~result.ok
              /\ result.err.kind = "msg"
              /\ result.err.text \in
                     {Tail(EntryLines(ErrorItems, Len(ErrorItems))),
                      QueryFailedText \o EntryLines(ErrorItems, Len(ErrorItems))}
    /\ (main_GotEnvelope /\ DataPresent)
           => /\ result.ok
              /\ result.val.data = Some(Data_deserialize(response.body.data).val)

-----------------------------------------------------------------------------
(* C13 *)

\* C13 (as claimed): a query leaves the file system as it was, in every
\* outcome; a finished query has sent its request, also when nothing can be
\* written to ./target; and what the query returns for a response is the same
\* whether ./target is writable or not.
C13_NoPersistedState ==
    /\ fs.request_json = NoFile
    /\ fs.response_json = NoFile
    /\ pc = "done" => Len(wire) = 1
    /\ (pc = "done" /\ response # NoResponse)
           => query_campaign_status_received([fs EXCEPT !.writable = TRUE], response)
                  = query_campaign_status_received([fs EXCEPT !.writable = FALSE], response)

=============================================================================
